---- MODULE Spec2Model ----
(***************************************************************************)
(* Model of autolysis.py: a command-line pipeline that loads a CSV file    *)
(* (with a bounded retry), analyses it, renders a correlation heatmap,     *)
(* asks a remote model for insights and writes README.md.                  *)
(*                                                                         *)
(* A behaviour is a sequence of process runs on one machine: the file      *)
(* system persists from run to run, everything else is per process.        *)
(***************************************************************************)
EXTENDS Integers, Sequences, FiniteSets, TLC

\* ---------------------------------------------------------------- bounds
MaxCells == 5     \* data cells (columns x rows) of the input CSV
MaxArgv == 4      \* largest len(sys.argv) tried
MaxRuns == 2      \* process runs on the same output directory

\* ------------------------------------------------------ program constants
STOP_ATTEMPTS == 3                       \* stop_after_attempt(3)
USAGE_ARGV_LEN == 3                      \* len(sys.argv) != 3
TOKEN_VAR == "AIPROXY_TOKEN"
FALLBACK == "No insights generated due to an error in LLM communication."
USAGE == "Usage: python autolysis.py <input_csv_path> <output_dir>"
MSG_LOADED == "Dataset loaded successfully."
MSG_LOAD_ERROR == "Error loading dataset"
MSG_NO_NUMERIC == "No numeric columns available for correlation heatmap."
MSG_ANALYSIS == "Analysis completed."
MSG_VISUALS == "Visualizations generated."
MSG_LLM_ERROR == "Error communicating with LLM"
MSG_INSIGHTS == "Insights generated by LLM."

\* ------------------------------------------------------------ environment
OutputDir == "out"
LLM_TEXT == "The data shows a trend."    \* some text the remote model returns
NONE == "<None>"                         \* Python's None, where a str is expected
Cell == {"", "1", "x"}                   \* raw CSV cells: empty, a number, a word

\* The Tables pd.read_csv can return: at least one column, every column the
\* same number of rows (none for a header-only file).  A Table is a sequence
\* of columns, a column is the sequence of its cells; column i carries the
\* header ColName(i).
Shapes == { sh \in (1..MaxCells) \X (0..MaxCells) : sh[1] * sh[2] <= MaxCells }

Tables == UNION { [1..sh[1] -> [1..sh[2] -> Cell]] : sh \in Shapes }

NoTable == << >>                         \* no Table bound to `data` yet

ColName(i) == "c" \o ToString(i)

VARIABLES
    environ,       \* names of the environment variables that are set
    argvLen,       \* len(sys.argv) of the current process
    fileTable,     \* what the input file parses to when a read succeeds
    dirExists,     \* the output directory exists
    files,         \* files of the output directory: path -> content (lines)
    preexisting,   \* paths that existed when the current process started
    runs,          \* number of processes started so far
    pc,            \* position of the current process
    exit,          \* exit status, meaningful when pc = "exited"
    out,           \* lines printed to standard output by the current process
    argChecked,    \* the argument check was executed
    dirCreated,    \* os.makedirs was executed
    attempts,      \* read attempts made by load_dataset
    loaderTrace,   \* "fail" / "sleep" / "ok" events of load_dataset, in order
    loaderResult,  \* "none", "returned" or "raised"
    data,          \* the Table held by main
    analysis,      \* the Analysis Record held by main
    prompt,        \* the prompt built by main
    llmCalls,      \* requests issued to the remote model
    llmResult,     \* "none", "ok" or "error": how the remote call ended
    insights,      \* what ask_llm returned
    steps,         \* steps of main completed so far, in order
    written        \* paths written by the current process

vars == << environ, argvLen, fileTable, dirExists, files, preexisting, runs,
           pc, exit, out, argChecked, dirCreated, attempts, loaderTrace,
           loaderResult, data, analysis, prompt, llmCalls, llmResult,
           insights, steps, written >>

envVars == << fileTable >>
fsVars == << dirExists, files >>
loaderVars == << attempts, loaderTrace, loaderResult, data >>
llmVars == << llmCalls, llmResult, insights >>

\* ---------------------------------------------------------- pure helpers
NCols(t) == Len(t)
NRows(t) == IF Len(t) = 0 THEN 0 ELSE Len(t[1])

\* pandas: an empty CSV field is read as NaN
IsNull(cell) == cell = ""
IsNumber(cell) == cell = "1"

\* dtype inferred by pd.read_csv: a column of numbers and blanks is numeric
\* (an all-blank column is float64), anything else, and every column of a
\* header-only file, is object
Dtype(col) ==
    IF Len(col) = 0 THEN "object"
    ELSE IF \A i \in 1..Len(col) : IsNull(col[i]) \/ IsNumber(col[i]) THEN "number"
    ELSE "object"

\* data.isnull().sum() for one column, counted cell by cell
\* (variant: counts every cell, as count() of the rows would)
RECURSIVE IsNullSumAll(_)
IsNullSumAll(col) == IF col = << >> THEN 0 ELSE 1 + IsNullSumAll(Tail(col))

RECURSIVE IsNullSum(_)
IsNullSum(col) ==
    IF col = << >> THEN 0
    ELSE (IF IsNull(Head(col)) THEN 1 ELSE 0) + IsNullSum(Tail(col))

\* data.describe(include='all'): kept to its "count" row (non-null cells)
Describe(t) == [i \in 1..NCols(t) |-> << ColName(i), NRows(t) - IsNullSum(t[i]) >>]

NoAnalysis == [shape |-> << 0, 0 >>, columns |-> << >>,
               missing_values |-> << >>, summary_stats |-> << >>]

\* analyze_data: the dicts are sequences of <<key, value>> in column order
analyze_data(t) ==
    [shape          |-> << NRows(t), NCols(t) >>,
     columns        |-> [i \in 1..NCols(t) |-> << ColName(i), Dtype(t[i]) >>],
     missing_values |-> [i \in 1..NCols(t) |-> << ColName(i), IsNullSum(t[i]) >>],
     summary_stats  |-> Describe(t)]

\* data.select_dtypes(include=['number']): indices of the numeric columns
RECURSIVE SelectNumeric(_, _)
SelectNumeric(t, i) ==
    IF i > NCols(t) THEN << >>
    ELSE (IF Dtype(t[i]) = "number" THEN << i >> ELSE << >>) \o SelectNumeric(t, i + 1)

select_dtypes(t) == SelectNumeric(t, 1)

\* DataFrame.empty of the numeric subset: no column or no row
\* (variant: the early return of lines 51-53 is never taken)
IsEmptyNever(t, numeric) == FALSE

IsEmpty(t, numeric) == Len(numeric) = 0 \/ NRows(t) = 0

\* the path given to savefig (variant: a file name of its own for every run)
HeatmapPathPerRun(output_dir) ==
    output_dir \o "/correlation_heatmap_" \o ToString(runs) \o ".png"

HeatmapPath(output_dir) == output_dir \o "/correlation_heatmap.png"

ReadmePath(output_dir) == output_dir \o "/README.md"

\* the rendered heatmap, kept to its title and its axis labels
Heatmap(numeric) == << "Correlation Heatmap" >> \o [k \in 1..Len(numeric) |-> ColName(numeric[k])]

ShapeLine(shape) ==
    "- Shape: (" \o ToString(shape[1]) \o ", " \o ToString(shape[2]) \o ")"

MissingLine(entry) == "  - " \o entry[1] \o ": " \o ToString(entry[2])

\* write_readme: the lines of README.md
ReadmeLines(an, ins) ==
    LET text == IF ins = NONE THEN FALLBACK ELSE ins
    IN  << "# Automated Analysis", "", "## Summary", ShapeLine(an.shape),
           "- Missing Values:" >>
        \o [k \in 1..Len(an.missing_values) |-> MissingLine(an.missing_values[k])]
        \o << "", "## Insights", text >>

WriteFile(fs, path, content) ==
    [p \in (DOMAIN fs) \cup {path} |-> IF p = path THEN content ELSE fs[p]]

\* ------------------------------------------------------------------ Init
\* no process yet: the machine as the first run will find it
NoProcess ==
    /\ pc = "start"
    /\ environ = {}
    /\ argvLen = 1
    /\ preexisting = {}
    /\ exit = 0
    /\ out = << >>
    /\ argChecked = FALSE
    /\ dirCreated = FALSE
    /\ attempts = 0
    /\ loaderTrace = << >>
    /\ loaderResult = "none"
    /\ data = NoTable
    /\ analysis = NoAnalysis
    /\ prompt = << >>
    /\ llmCalls = 0
    /\ llmResult = "none"
    /\ insights = ""
    /\ steps = << >>
    /\ written = {}

Init ==
    /\ fileTable \in Tables
    /\ dirExists \in BOOLEAN
    /\ files = << >>
    /\ runs = 0
    /\ NoProcess

\* --------------------------------------------------- module start-up
\* os.environ["AIPROXY_TOKEN"] raises KeyError when the variable is unset
\* (variant: a lookup that never raises, as os.environ.get would)
KeyErrorNever(env) == FALSE

KeyError(env) == TOKEN_VAR \notin env

\* lines 9-14: the token is read before anything else; the EnvironmentError
\* is uncaught, so the interpreter ends with status 1 (traceback on stderr)
TokenCheck ==
    /\ pc = "token"
    /\ IF KeyError(environ)
       THEN pc' = "exited" /\ exit' = 1
       ELSE pc' = "argcheck" /\ exit' = exit
    /\ UNCHANGED << environ, argvLen, runs, preexisting, out, argChecked,
                    dirCreated, analysis, prompt, steps, written >>
    /\ UNCHANGED << envVars, fsVars, loaderVars, llmVars >>

\* ------------------------------------------------------ __main__ block
\* the test of line 122 (variant: only too few arguments are refused)
ArgCountWrongShort(n) == n < USAGE_ARGV_LEN

ArgCountWrong(n) == n # USAGE_ARGV_LEN

\* lines 122-124
ArgCheck ==
    /\ pc = "argcheck"
    /\ argChecked' = TRUE
    /\ IF ArgCountWrong(argvLen)
       THEN /\ out' = Append(out, USAGE)
            /\ pc' = "exited"
            /\ exit' = 1
       ELSE /\ out' = out
            /\ pc' = "mkdir"
            /\ exit' = exit
    /\ UNCHANGED << environ, argvLen, runs, preexisting, dirCreated, analysis,
                    prompt, steps, written >>
    /\ UNCHANGED << envVars, fsVars, loaderVars, llmVars >>

\* lines 130-131
EnsureOutputDir ==
    /\ pc = "mkdir"
    /\ IF ~dirExists
       THEN dirExists' = TRUE /\ dirCreated' = TRUE
       ELSE UNCHANGED << dirExists, dirCreated >>
    /\ pc' = "load"
    /\ UNCHANGED << environ, argvLen, runs, preexisting, exit, out, argChecked,
                    analysis, prompt, steps, written, files >>
    /\ UNCHANGED << envVars, loaderVars, llmVars >>

\* --------------------------------------------------------- load_dataset
\* tenacity: stop_after_attempt(3) is asked after each failed attempt
\* (variant: one attempt more before giving up)
StopAfterAttemptLate(n) == n >= STOP_ATTEMPTS + 1

StopAfterAttempt(n) == n >= STOP_ATTEMPTS

\* One attempt of load_dataset under @retry, the n-th, whose read succeeds
\* (ok) or raises.  A failure is printed and re-raised to tenacity, which
\* either gives up (RetryError reaches main and nothing catches it) or
\* schedules a wait.
\* (variant: after the last failure an empty Table is returned to main)
LoadOutcomePartial(ok, n) ==
    IF ok \/ StopAfterAttempt(n)
    THEN [event |-> IF ok THEN "ok" ELSE "fail",
          line |-> IF ok THEN MSG_LOADED ELSE MSG_LOAD_ERROR,
          result |-> "returned", pc |-> "analyze", exit |-> 0,
          data |-> IF ok THEN fileTable ELSE << << >> >>,
          steps |-> << "Loader" >>]
    ELSE [event |-> "fail", line |-> MSG_LOAD_ERROR, result |-> "none",
          pc |-> "wait", exit |-> 0, data |-> NoTable, steps |-> << >>]

LoadOutcome(ok, n) ==
    IF ok
    THEN [event |-> "ok", line |-> MSG_LOADED, result |-> "returned",
          pc |-> "analyze", exit |-> 0, data |-> fileTable,
          steps |-> << "Loader" >>]
    ELSE IF StopAfterAttempt(n)
    THEN [event |-> "fail", line |-> MSG_LOAD_ERROR, result |-> "raised",
          pc |-> "exited", exit |-> 1, data |-> NoTable, steps |-> << >>]
    ELSE [event |-> "fail", line |-> MSG_LOAD_ERROR, result |-> "none",
          pc |-> "wait", exit |-> 0, data |-> NoTable, steps |-> << >>]

\* lines 24-33 and the call at line 97
LoadAttempt ==
    /\ pc = "load"
    /\ \E ok \in BOOLEAN :
         LET o == LoadOutcome(ok, attempts + 1)
         IN  /\ attempts' = attempts + 1
             /\ loaderTrace' = Append(loaderTrace, o.event)
             /\ out' = Append(out, o.line)
             /\ loaderResult' = o.result
             /\ data' = o.data
             /\ steps' = steps \o o.steps
             /\ pc' = o.pc
             /\ exit' = o.exit
    /\ UNCHANGED << environ, argvLen, runs, preexisting, argChecked, dirCreated,
                    analysis, prompt, written >>
    /\ UNCHANGED << envVars, fsVars, llmVars >>

\* wait_fixed(2): the sleep tenacity takes before the next attempt
\* (variant: the next attempt follows without a sleep)
LoadWaitSkipped ==
    /\ pc = "wait"
    /\ pc' = "load"
    /\ UNCHANGED << environ, argvLen, runs, preexisting, exit, out, argChecked,
                    dirCreated, analysis, prompt, steps, written >>
    /\ UNCHANGED << envVars, fsVars, loaderVars, llmVars >>

LoadWait ==
    /\ pc = "wait"
    /\ loaderTrace' = Append(loaderTrace, "sleep")
    /\ pc' = "load"
    /\ UNCHANGED << environ, argvLen, runs, preexisting, exit, out, argChecked,
                    dirCreated, analysis, prompt, steps, written >>
    /\ UNCHANGED << envVars, fsVars, llmVars, attempts, loaderResult, data >>

\* ----------------------------------------------------------------- main
\* lines 100-101
AnalyzeData ==
    /\ pc = "analyze"
    /\ analysis' = analyze_data(data)
    /\ out' = Append(out, MSG_ANALYSIS)
    /\ steps' = Append(steps, "Analyzer")
    /\ pc' = "visualize"
    /\ UNCHANGED << environ, argvLen, runs, preexisting, exit, argChecked,
                    dirCreated, prompt, written >>
    /\ UNCHANGED << envVars, fsVars, loaderVars, llmVars >>

\* lines 47-60 and 104-105
CreateVisualizations ==
    /\ pc = "visualize"
    /\ LET numeric == select_dtypes(data)
           path == HeatmapPath(OutputDir)
       IN  IF IsEmpty(data, numeric)
           THEN /\ out' = out \o << MSG_NO_NUMERIC, MSG_VISUALS >>
                /\ UNCHANGED << files, written >>
           ELSE /\ files' = WriteFile(files, path, Heatmap(numeric))
                /\ written' = written \cup {path}
                /\ out' = Append(out, MSG_VISUALS)
    /\ steps' = Append(steps, "Visualizer")
    /\ pc' = "prompt"
    /\ UNCHANGED << environ, argvLen, runs, preexisting, exit, argChecked,
                    dirCreated, analysis, prompt, dirExists >>
    /\ UNCHANGED << envVars, loaderVars, llmVars >>

\* lines 108-112
BuildPrompt ==
    /\ pc = "prompt"
    /\ prompt' = << "Based on the following analysis and visualizations, provide insights:",
                    analysis.summary_stats >>
    /\ steps' = Append(steps, "Prompt")
    /\ pc' = "ask_llm"
    /\ UNCHANGED << environ, argvLen, runs, preexisting, exit, out, argChecked,
                    dirCreated, analysis, written >>
    /\ UNCHANGED << envVars, fsVars, loaderVars, llmVars >>

\* ask_llm: what it returns for each way the remote call can end; a reply
\* may carry a text or a null content
\* (variant: None instead of the fallback string after an error)
ask_llm_none(result, content) == IF result = "ok" THEN content ELSE NONE

ask_llm(result, content) == IF result = "ok" THEN content ELSE FALLBACK

\* lines 63-76 and 113-114, with a variant that asks again after an error
AskLlmRetrying ==
    /\ pc = "ask_llm"
    /\ \E result \in {"ok", "error"}, content \in {LLM_TEXT, NONE} :
         /\ llmCalls' = llmCalls + 1
         /\ llmResult' = result
         /\ insights' = ask_llm(result, content)
         /\ IF result = "ok"
            THEN /\ out' = Append(out, MSG_INSIGHTS)
                 /\ steps' = Append(steps, "Insight Requester")
                 /\ pc' = "write_readme"
            ELSE /\ out' = Append(out, MSG_LLM_ERROR)
                 /\ steps' = steps
                 /\ pc' = IF llmCalls < STOP_ATTEMPTS THEN "ask_llm" ELSE "write_readme"
    /\ UNCHANGED << environ, argvLen, runs, preexisting, exit, argChecked,
                    dirCreated, analysis, prompt, written >>
    /\ UNCHANGED << envVars, fsVars, loaderVars >>

AskLlm ==
    /\ pc = "ask_llm"
    /\ \E result \in {"ok", "error"}, content \in {LLM_TEXT, NONE} :
         /\ llmCalls' = llmCalls + 1
         /\ llmResult' = result
         /\ insights' = ask_llm(result, content)
         /\ out' = IF result = "ok"
                   THEN Append(out, MSG_INSIGHTS)
                   ELSE out \o << MSG_LLM_ERROR, MSG_INSIGHTS >>
    /\ steps' = Append(steps, "Insight Requester")
    /\ pc' = "write_readme"
    /\ UNCHANGED << environ, argvLen, runs, preexisting, exit, argChecked,
                    dirCreated, analysis, prompt, written >>
    /\ UNCHANGED << envVars, fsVars, loaderVars >>

\* lines 79-91 and 117; main returns and the interpreter ends with status 0
WriteReadme ==
    /\ pc = "write_readme"
    /\ LET path == ReadmePath(OutputDir)
       IN  /\ files' = WriteFile(files, path, ReadmeLines(analysis, insights))
           /\ written' = written \cup {path}
    /\ steps' = Append(steps, "Report Writer")
    /\ pc' = "exited"
    /\ exit' = 0
    /\ UNCHANGED << environ, argvLen, runs, preexisting, out, argChecked,
                    dirCreated, analysis, prompt, dirExists >>
    /\ UNCHANGED << envVars, loaderVars, llmVars >>

\* ------------------------------------------------- process start and end
\* The operating system starts the script with an environment and an
\* argument vector; the file system is the one earlier runs left behind.
Launch ==
    /\ pc = "start"
    /\ runs < MaxRuns
    /\ runs' = runs + 1
    /\ environ' \in SUBSET {TOKEN_VAR}
    /\ argvLen' \in 1..MaxArgv
    /\ preexisting' = DOMAIN files
    /\ pc' = "token"
    /\ UNCHANGED << exit, out, argChecked, dirCreated, analysis, prompt,
                    steps, written >>
    /\ UNCHANGED << envVars, fsVars, loaderVars, llmVars >>

\* The exited process is gone: nothing of it remains but the files.
Terminate ==
    /\ pc = "exited"
    /\ pc' = "start"
    /\ environ' = {}
    /\ argvLen' = 1
    /\ preexisting' = {}
    /\ exit' = 0
    /\ out' = << >>
    /\ argChecked' = FALSE
    /\ dirCreated' = FALSE
    /\ attempts' = 0
    /\ loaderTrace' = << >>
    /\ loaderResult' = "none"
    /\ data' = NoTable
    /\ analysis' = NoAnalysis
    /\ prompt' = << >>
    /\ llmCalls' = 0
    /\ llmResult' = "none"
    /\ insights' = ""
    /\ steps' = << >>
    /\ written' = {}
    /\ UNCHANGED << runs, envVars, fsVars >>

Next ==
    \/ TokenCheck
    \/ ArgCheck
    \/ EnsureOutputDir
    \/ LoadAttempt
    \/ LoadWait
    \/ AnalyzeData
    \/ CreateVisualizations
    \/ BuildPrompt
    \/ AskLlm
    \/ WriteReadme
    \/ Launch
    \/ Terminate

Spec == Init /\ [][Next]_vars

\* ================================================================ claims
RECURSIVE SumSeq(_)
SumSeq(s) == IF s = << >> THEN 0 ELSE Head(s) + SumSeq(Tail(s))

RECURSIVE Count(_, _)
Count(s, x) == IF s = << >> THEN 0
               ELSE (IF Head(s) = x THEN 1 ELSE 0) + Count(Tail(s), x)

Contains(s, x) == \E i \in 1..Len(s) : s[i] = x

IsPrefix(s, t) == Len(s) <= Len(t) /\ SubSeq(t, 1, Len(s)) = s

Pipeline == << "Loader", "Analyzer", "Visualizer", "Prompt",
               "Insight Requester", "Report Writer" >>

FixedHeatmap == "out/correlation_heatmap.png"
FixedReadme == "out/README.md"

\* what a run has done besides checking its environment and arguments
NoWorkDone ==
    /\ ~dirCreated
    /\ attempts = 0
    /\ data = NoTable
    /\ llmCalls = 0
    /\ steps = << >>
    /\ written = {}

LoaderFinished == attempts > 0 /\ pc \notin {"load", "wait"}

\* C1: when every read of the input file fails, load_dataset makes exactly
\* 3 attempts, then raises to its caller, and never returns a Table.
C1_ThreeFailedAttemptsThenRaise ==
    ~Contains(loaderTrace, "ok") =>
        /\ attempts <= 3
        /\ Count(loaderTrace, "fail") = attempts
        /\ loaderResult # "returned"
        /\ data = NoTable
        /\ LoaderFinished => (attempts = 3 /\ loaderResult = "raised")

C1_Witness ==
    /\ loaderResult = "raised"
    /\ loaderTrace = << "fail", "sleep", "fail", "sleep", "fail" >>

\* C2: the steps of main run in the fixed order Loader, Analyzer,
\* Visualizer, prompt construction, Insight Requester, Report Writer, each
\* after the previous one completed and none more than once; the remote
\* model is asked at most once per run, whether the request succeeds or not.
StepsBefore(p) ==
    CASE p \in {"load", "wait"} -> 0
      [] p = "analyze"      -> 1
      [] p = "visualize"    -> 2
      [] p = "prompt"       -> 3
      [] p = "ask_llm"      -> 4
      [] p = "write_readme" -> 5
      [] OTHER              -> Len(steps)

C2_FixedOrderEachStepOnce ==
    /\ IsPrefix(steps, Pipeline)
    /\ Len(steps) = StepsBefore(pc)
    /\ llmCalls <= 1
    /\ llmCalls = Count(steps, "Insight Requester")
    /\ (llmResult # "none") = (llmCalls = 1)

C2_Witness ==
    /\ steps = Pipeline
    /\ llmResult = "error"
    /\ llmCalls = 1

\* C3: when the Loader fails after exhausting its retries the run is
\* aborted: no Analyzer, Visualizer, remote request or Report Writer, no
\* heatmap and no README written by that run, and the process has failed.
LoaderExhausted == Count(loaderTrace, "fail") >= 3 /\ ~Contains(loaderTrace, "ok")

C3_LoaderFailureAbortsRun ==
    LoaderExhausted =>
        /\ steps = << >>
        /\ analysis = NoAnalysis
        /\ llmCalls = 0
        /\ written = {}
        /\ pc = "exited"
        /\ exit # 0

C3_Witness ==
    /\ LoaderExhausted
    /\ pc = "exited"
    /\ dirCreated

\* C4: when the remote call fails, ask_llm returns exactly the fallback
\* string, the run continues to the Report Writer, and the Insights section
\* of the README written by that run is that string verbatim.
InsightsSection(lines) ==
    LET i == CHOOSE k \in 1..Len(lines) :
                 /\ lines[k] = "## Insights"
                 /\ \A m \in 1..(k - 1) : lines[m] # "## Insights"
    IN  SubSeq(lines, i + 1, Len(lines))

C4_FallbackOnLlmFailure ==
    llmResult = "error" =>
        /\ insights = "No insights generated due to an error in LLM communication."
        /\ pc \in {"write_readme", "exited"}
        /\ pc = "exited" =>
             /\ exit = 0
             /\ FixedReadme \in written
             /\ InsightsSection(files[FixedReadme]) =
                  << "No insights generated due to an error in LLM communication." >>

C4_Witness ==
    /\ llmResult = "error"
    /\ pc = "exited"
    /\ FixedReadme \in DOMAIN files

\* C5: for a Table with two or more numeric columns create_visualizations
\* produces exactly one image file, at <output_dir>/correlation_heatmap.png,
\* and a later run overwrites that file instead of creating another one.
Images(fs) == { p \in DOMAIN fs : p # FixedReadme }

C5_OneHeatmapAtFixedPath ==
    (Len(select_dtypes(data)) >= 2 /\ Contains(steps, "Visualizer")) =>
        /\ written \ {FixedReadme} = {FixedHeatmap}
        /\ Images(files) = {FixedHeatmap}
        /\ files[FixedHeatmap] = Heatmap(select_dtypes(data))

C5_Witness ==
    /\ Len(select_dtypes(data)) >= 2
    /\ Contains(steps, "Visualizer")
    /\ runs >= 2
    /\ FixedHeatmap \in preexisting
    /\ FixedHeatmap \in written

\* C6: for a Table without numeric columns create_visualizations writes no
\* image, raises nothing and returns after logging; the run goes on through
\* the remaining steps and creates no correlation_heatmap.png.
C6_NoNumericColumnsNoImage ==
    (data # NoTable /\ Len(select_dtypes(data)) = 0 /\ Contains(steps, "Visualizer")) =>
        /\ written \subseteq {FixedReadme}
        /\ Images(files) \subseteq preexisting
        /\ Count(out, MSG_NO_NUMERIC) = 1
        /\ pc \in {"prompt", "ask_llm", "write_readme", "exited"}
        /\ pc = "exited" => (exit = 0 /\ steps = Pipeline /\ FixedReadme \in written)

C6_Witness ==
    /\ data # NoTable
    /\ NRows(data) > 0
    /\ Len(select_dtypes(data)) = 0
    /\ pc = "exited"
    /\ FixedHeatmap \notin DOMAIN files

\* C7: the missing-value mapping of analyze_data has exactly one entry per
\* column, each the (non-negative) number of null cells of that column, so
\* the entries sum to the Table's null cells; the Summary section of the
\* README has a line "- <column>: <count>" for every column, zero or not.
NullRows(t, i) == { j \in 1..NRows(t) : t[i][j] = "" }

NullCells(t) == { c \in (1..NCols(t)) \X (1..NRows(t)) : t[c[1]][c[2]] = "" }

SummarySection(lines) ==
    LET a == CHOOSE k \in 1..Len(lines) : lines[k] = "## Summary"
        b == CHOOSE k \in 1..Len(lines) : lines[k] = "## Insights"
    IN  SubSeq(lines, a + 1, b - 1)

C7_MissingValuesPerColumn ==
    Contains(steps, "Analyzer") =>
        LET mv == analysis.missing_values
        IN  /\ Len(mv) = NCols(data)
            /\ \A i \in 1..Len(mv) :
                 /\ mv[i][1] = ColName(i)
                 /\ mv[i][2] \in Nat
                 /\ mv[i][2] = Cardinality(NullRows(data, i))
            /\ SumSeq([i \in 1..Len(mv) |-> mv[i][2]]) = Cardinality(NullCells(data))
            /\ Contains(steps, "Report Writer") =>
                 \A i \in 1..NCols(data) :
                    Count(SummarySection(files[FixedReadme]),
                          "  - " \o ColName(i) \o ": "
                             \o ToString(Cardinality(NullRows(data, i)))) = 1

C7_Witness ==
    /\ Contains(steps, "Report Writer")
    /\ \E i, j \in 1..NCols(data) :
         /\ NullRows(data, i) = {}
         /\ NullRows(data, j) # {}

\* C8 as stated: started with a number of arguments other than two, the
\* script prints the usage message and exits with a non-zero status before
\* any work is done.
C8_Original ==
    (pc # "start" /\ argvLen - 1 # 2) =>
        /\ NoWorkDone
        /\ pc = "exited" => (exit # 0 /\ Contains(out, USAGE))

\* C8 as amended: started with a number of arguments other than two, the
\* script exits with a non-zero status before any work is done (no output
\* directory created, no dataset loaded, no file written), and it prints the
\* usage message when the access token is set; with the token unset it
\* aborts on the token before the arguments are looked at.
C8_UsageExitWhenTokenSet ==
    (pc # "start" /\ argvLen - 1 # 2) =>
        /\ NoWorkDone
        /\ pc \in {"token", "argcheck", "exited"}
        /\ pc = "exited" =>
             /\ exit # 0
             /\ ("AIPROXY_TOKEN" \in environ) => (out = << USAGE >>)
             /\ ("AIPROXY_TOKEN" \notin environ) => (out = << >>)

C8_Witness ==
    /\ argvLen - 1 # 2
    /\ pc = "exited"
    /\ out = << USAGE >>
    /\ ~dirExists

\* C9: with the access token unset the process aborts at start-up, before
\* the argument check, the creation of the output directory, the loading of
\* the dataset, the remote request and any file write.
C9_MissingTokenAbortsFirst ==
    (pc # "start" /\ "AIPROXY_TOKEN" \notin environ) =>
        /\ ~argChecked
        /\ NoWorkDone
        /\ out = << >>
        /\ pc \in {"token", "exited"}
        /\ pc = "exited" => exit # 0

C9_Witness ==
    /\ "AIPROXY_TOKEN" \notin environ
    /\ pc = "exited"
    /\ argvLen = 3
    /\ ~dirExists

\* C10: when the k-th read attempt is the first to succeed (k in 1..3),
\* load_dataset makes exactly k attempts, returns the Table that attempt
\* read, prints k-1 failure lines and one success line, and sleeps k-1
\* times, each time between two attempts; main goes on with the Analyzer.
RECURSIVE ExpectedTrace(_)
ExpectedTrace(k) ==
    IF k <= 1 THEN << "ok" >> ELSE << "fail", "sleep" >> \o ExpectedTrace(k - 1)

C10_FirstSuccessAtK ==
    loaderResult = "returned" =>
        \E k \in 1..3 :
            /\ attempts = k
            /\ loaderTrace = ExpectedTrace(k)
            /\ Count(loaderTrace, "sleep") = k - 1
            /\ data = fileTable
            /\ Count(out, MSG_LOAD_ERROR) = k - 1
            /\ Count(out, MSG_LOADED) = 1
            /\ \/ pc = "analyze" /\ steps = << "Loader" >>
               \/ IsPrefix(<< "Loader", "Analyzer" >>, steps)

C10_Witness ==
    /\ loaderResult = "returned"
    /\ attempts = 3
    /\ Contains(steps, "Analyzer")

====
